---- MODULE Spec2Model ----
(***************************************************************************)
(* Model of generate_terminal_gif.py: the colour resolver (get_bg_color,   *)
(* hex_to_rgb), the natural sort key, the fallback GIF encoder             *)
(* (create_gif_from_frames) and the tail of main (avatar temp file,        *)
(* primary export, fallback trigger, README).                              *)
(*                                                                         *)
(* A Python str is a sequence of one-character strings.  The character     *)
(* written "U+0663" stands for ARABIC-INDIC DIGIT THREE, a character that  *)
(* str.isdigit() accepts, int() converts to 3 and the pattern [0-9] does   *)
(* not match.                                                              *)
(***************************************************************************)
EXTENDS Integers, Sequences, FiniteSets, TLC

VARIABLES
    \* ---- natural sort (natural_sort_key, list.sort) ----
    listing,        \* the list handed to sort(key=natural_sort_key)
    pairInfo,       \* how the two names were built (<base><i>.png, <base><j>.png)
    keys,           \* natural_sort_key of each element of listing
    sorted,         \* the outcome of listing.sort(key=natural_sort_key)
    sortPc,
    \* ---- colour resolver (get_bg_color) ----
    general,        \* the [general] table of gifos_settings.toml
    local_colors,   \* ansi_escape_colors.toml
    gifos_colors,   \* the library's colour table
    bg_color,       \* the outcome of get_bg_color()
    \* ---- main ----
    pc,             \* the position of main
    tempOnDisk,     \* the NamedTemporaryFile(delete=False) of this run exists
    gen_gif,        \* how t.gen_gif() ended
    outputGif,      \* output.gif
    framesDir,      \* the names in frames/
    framesKind,     \* what the path frames is: a directory, a file, or absent
    gifWritable,    \* output.gif can be opened for writing
    corrupt,        \* the names in frames/ that Image.open cannot read
    fallback,       \* how create_gif_from_frames() ended, "not called" before
    printed,        \* the lines main and the encoder printed about the GIF
    readme          \* README.md

sortVars == <<listing, pairInfo, keys, sorted, sortPc>>
colorVars == <<general, local_colors, gifos_colors, bg_color>>
mainVars == <<pc, tempOnDisk, gen_gif, outputGif, framesDir, framesKind, gifWritable, corrupt, fallback,
              printed, readme>>
vars == <<sortVars, colorVars, mainVars>>

(***************************************************************************)
(* Characters                                                              *)
(***************************************************************************)
AsciiDigits == {"0", "1", "2", "3", "4", "5", "6", "7", "8", "9"}

ArabicThree == "U+0663"

\* ord(c)
Ord(c) ==
    CASE c = "#" -> 35 [] c = "." -> 46
      [] c = "0" -> 48 [] c = "1" -> 49 [] c = "2" -> 50 [] c = "3" -> 51
      [] c = "4" -> 52 [] c = "5" -> 53 [] c = "6" -> 54 [] c = "7" -> 55
      [] c = "8" -> 56 [] c = "9" -> 57
      [] c = "A" -> 65 [] c = "B" -> 66 [] c = "C" -> 67 [] c = "F" -> 70
      [] c = "G" -> 71 [] c = "N" -> 78 [] c = "P" -> 80
      [] c = "_" -> 95
      [] c = "a" -> 97 [] c = "b" -> 98 [] c = "c" -> 99 [] c = "e" -> 101
      [] c = "f" -> 102 [] c = "g" -> 103 [] c = "n" -> 110 [] c = "p" -> 112
      [] c = "t" -> 116 [] c = "x" -> 120
      [] c = ArabicThree -> 1635

\* c.lower()
LowerChar(c) ==
    CASE c = "A" -> "a" [] c = "B" -> "b" [] c = "C" -> "c" [] c = "F" -> "f"
      [] c = "G" -> "g" [] c = "N" -> "n" [] c = "P" -> "p"
      [] OTHER -> c

\* c.isdigit()
IsDigitChar(c) == c \in AsciiDigits \cup {ArabicThree}

\* int(c) of one decimal digit character
DigitValue(c) ==
    CASE c = "0" -> 0 [] c = "1" -> 1 [] c = "2" -> 2 [] c = "3" -> 3
      [] c = "4" -> 4 [] c = "5" -> 5 [] c = "6" -> 6 [] c = "7" -> 7
      [] c = "8" -> 8 [] c = "9" -> 9 [] c = ArabicThree -> 3

\* text.isdigit(): every character is a digit and there is at least one
isdigit(text) == Len(text) > 0 /\ \A k \in 1..Len(text) : IsDigitChar(text[k])

\* text.lower()
lower(text) == [k \in 1..Len(text) |-> LowerChar(text[k])]

\* int(text) of a string of decimal digit characters
RECURSIVE int(_)
int(text) ==
    IF text = <<>> THEN 0
    ELSE 10 * int(SubSeq(text, 1, Len(text) - 1)) + DigitValue(text[Len(text)])

\* s.endswith(suffix)
endswith(s, suffix) ==
    /\ Len(s) >= Len(suffix)
    /\ SubSeq(s, Len(s) - Len(suffix) + 1, Len(s)) = suffix

(***************************************************************************)
(* natural_sort_key                                                        *)
(***************************************************************************)
\* re.split('([0-9]+)', s) read from character i on: acc holds the pieces
\* closed so far, cur the piece being read, digits whether cur is a run of
\* [0-9].  A digit run is closed by the text that follows it, which is
\* empty at the end of s.
RECURSIVE SplitFrom(_, _, _, _, _)
SplitFrom(s, i, acc, cur, digits) ==
    IF i > Len(s) THEN (IF digits THEN acc \o <<cur, <<>>>> ELSE Append(acc, cur))
    ELSE IF (s[i] \in AsciiDigits) = digits
         THEN SplitFrom(s, i + 1, acc, Append(cur, s[i]), digits)
         ELSE SplitFrom(s, i + 1, Append(acc, cur), <<s[i]>>, ~digits)

\* re.split('([0-9]+)', s): the text between the digit runs and, the group
\* being a capturing one, the digit runs themselves, in order.  The list has
\* odd length: text, digits, text, ..., text (a text may be empty).
re_split(s) == SplitFrom(s, 1, <<>>, <<>>, FALSE)

IntToken(n) == [type |-> "int", int |-> n, str |-> <<>>]
StrToken(t) == [type |-> "str", int |-> 0, str |-> t]

\* the mutant of Token: a digit run kept as text
TokenAsText(text) == StrToken(lower(text))

\* int(text) if text.isdigit() else text.lower()
Token(text) == IF isdigit(text) THEN IntToken(int(text)) ELSE StrToken(lower(text))

natural_sort_key(s) ==
    LET parts == re_split(s) IN [k \in 1..Len(parts) |-> Token(parts[k])]

(***************************************************************************)
(* Comparing keys and sorting by them                                      *)
(***************************************************************************)
\* str < str: by code point, a proper prefix first
RECURSIVE StrLess(_, _)
StrLess(s, t) ==
    IF t = <<>> THEN FALSE
    ELSE IF s = <<>> THEN TRUE
    ELSE IF Head(s) # Head(t) THEN Ord(Head(s)) < Ord(Head(t))
    ELSE StrLess(Tail(s), Tail(t))

\* a < b for two tokens: "TypeError" for an int against a str
TokenLess(a, b) ==
    IF a.type # b.type THEN "TypeError"
    ELSE IF a.type = "int" THEN (IF a.int < b.int THEN "true" ELSE "false")
    ELSE (IF StrLess(a.str, b.str) THEN "true" ELSE "false")

\* a < b for two lists: the first position where they differ decides, and a
\* proper prefix is less
RECURSIVE ListLess(_, _)
ListLess(a, b) ==
    IF b = <<>> THEN "false"
    ELSE IF a = <<>> THEN "true"
    ELSE IF Head(a) # Head(b) THEN TokenLess(Head(a), Head(b))
    ELSE ListLess(Tail(a), Tail(b))

KeyLess(x, y) == ListLess(natural_sort_key(x), natural_sort_key(y))

\* x put into the sorted list l before the first element it is less than;
\* the elements are [name, key] pairs, the keys computed once as sort does
RECURSIVE Insert(_, _)
Insert(l, x) ==
    IF l = <<>> THEN <<x>>
    ELSE IF ListLess(x.key, Head(l).key) = "true" THEN <<x>> \o l
    ELSE <<Head(l)>> \o Insert(Tail(l), x)

RECURSIVE StableSort(_)
StableSort(l) ==
    IF l = <<>> THEN <<>>
    ELSE Insert(StableSort(SubSeq(l, 1, Len(l) - 1)), l[Len(l)])

\* l.sort(key=natural_sort_key): a stable sort; a comparison of an int with a
\* str raises TypeError and leaves no sorted list.  (Of a list of two, sort
\* compares the two elements once.  Which pairs of a longer list it compares
\* is timsort's business; longer lists with such a pair are never sorted
\* here.)
sort_by_key(l) ==
    LET keyed == [k \in 1..Len(l) |-> [name |-> l[k], key |-> natural_sort_key(l[k])]]
        done == StableSort(keyed)
    IN  IF \E a, b \in 1..Len(l) : ListLess(keyed[a].key, keyed[b].key) = "TypeError"
        THEN [raised |-> "TypeError", list |-> <<>>]
        ELSE [raised |-> "no", list |-> [k \in 1..Len(l) |-> done[k].name]]

(***************************************************************************)
(* The sort on its own: a list of two names is sorted by natural_sort_key  *)
(***************************************************************************)
MaxNameLen == 3
MaxBaseLen == 2
MaxIndex == 10
MaxWidth == 3

NameAlphabet == {"1", "a", "B", ArabicThree}
BaseAlphabet == {"f", "_", "1"}

Strings(alphabet, n) == UNION {[1..k -> alphabet] : k \in 0..n}

DigitChar(d) ==
    CASE d = 0 -> "0" [] d = 1 -> "1" [] d = 2 -> "2" [] d = 3 -> "3"
      [] d = 4 -> "4" [] d = 5 -> "5" [] d = 6 -> "6" [] d = 7 -> "7"
      [] d = 8 -> "8" [] d = 9 -> "9"

\* str(n)
RECURSIVE str(_)
str(n) == IF n < 10 THEN <<DigitChar(n)>> ELSE str(n \div 10) \o <<DigitChar(n % 10)>>

\* str(n).zfill(w)
zfill(n, w) == [k \in 1..(IF w > Len(str(n)) THEN w - Len(str(n)) ELSE 0) |-> "0"] \o str(n)

PngSuffix == <<".", "p", "n", "g">>

\* <base><index>.png with the index written w digits wide
FrameName(base, index, w) == base \o zfill(index, w) \o PngSuffix

NoPair == [base |-> <<>>, i |-> 0, j |-> 0, wi |-> 0, wj |-> 0, built |-> FALSE]
NotSorted == [raised |-> "not run", list |-> <<>>]

\* two arbitrary names
InitKey ==
    /\ listing \in {<<a, b>> : a \in Strings(NameAlphabet, MaxNameLen),
                               b \in Strings(NameAlphabet, MaxNameLen)}
    /\ pairInfo = NoPair

\* two frame names <base><i>.png and <base><j>.png, i < j, listed either way
InitPair ==
    /\ pairInfo \in {p \in [base : Strings(BaseAlphabet, MaxBaseLen), i : 0..MaxIndex,
                            j : 0..MaxIndex, wi : 1..MaxWidth, wj : 1..MaxWidth,
                            built : {TRUE}] :
                        p.i < p.j /\ p.wi >= Len(str(p.i)) /\ p.wj >= Len(str(p.j))}
    /\ listing \in {<<FrameName(pairInfo.base, pairInfo.i, pairInfo.wi),
                      FrameName(pairInfo.base, pairInfo.j, pairInfo.wj)>>,
                    <<FrameName(pairInfo.base, pairInfo.j, pairInfo.wj),
                      FrameName(pairInfo.base, pairInfo.i, pairInfo.wi)>>}

SortIdle ==
    /\ listing = <<>>
    /\ pairInfo = NoPair
    /\ keys = <<>>
    /\ sorted = NotSorted
    /\ sortPc = "idle"

\* listing.sort(key=natural_sort_key)
SortListing ==
    /\ sortPc = "start"
    /\ keys' = [k \in 1..Len(listing) |-> natural_sort_key(listing[k])]
    /\ sorted' = sort_by_key(listing)
    /\ sortPc' = "sorted"
    /\ UNCHANGED <<listing, pairInfo>>

(***************************************************************************)
(* The colour resolver                                                     *)
(***************************************************************************)
\* int(c, 16) of one hexadecimal digit
HexValue(c) ==
    CASE c \in AsciiDigits -> DigitValue(c)
      [] c \in {"a", "A"} -> 10 [] c \in {"b", "B"} -> 11 [] c \in {"c", "C"} -> 12
      [] c = "e" -> 14 [] c \in {"f", "F"} -> 15

\* hex_color.lstrip('#')
RECURSIVE lstrip_hash(_)
lstrip_hash(s) == IF s # <<>> /\ Head(s) = "#" THEN lstrip_hash(Tail(s)) ELSE s

\* int(h[i:i+2], 16), i counted from 0
HexPair(h, i) == 16 * HexValue(h[i + 1]) + HexValue(h[i + 2])

hex_to_rgb(hex_color) ==
    LET h == lstrip_hash(hex_color) IN <<HexPair(h, 0), HexPair(h, 2), HexPair(h, 4)>>

DefaultBgHex == <<"#", "0", "c", "0", "e", "0", "f">>
LocalHex == <<"#", "1", "A", "2", "b", "3", "C">>
LibraryHex == <<"#", "f", "f", "0", "0", "9", "9">>
BgHexes == {DefaultBgHex, LocalHex, LibraryHex}

\* A table maps every scheme name to what the table holds for it: nothing
\* (present = FALSE), a table without "default_colors", one whose
\* default_colors has no "bg", or one with a bg.
SchemeNames == {"yoru", "mine"}
NoScheme == [present |-> FALSE, default_colors |-> FALSE, has_bg |-> FALSE, bg |-> <<>>]
SchemeEntries ==
    {NoScheme,
     [present |-> TRUE, default_colors |-> FALSE, has_bg |-> FALSE, bg |-> <<>>],
     [present |-> TRUE, default_colors |-> TRUE, has_bg |-> FALSE, bg |-> <<>>]}
    \cup {[present |-> TRUE, default_colors |-> TRUE, has_bg |-> TRUE, bg |-> h] : h \in BgHexes}

\* [general] with or without a color_scheme key
Generals == {[has_color_scheme |-> FALSE, color_scheme |-> ""]}
            \cup {[has_color_scheme |-> TRUE, color_scheme |-> n] : n \in SchemeNames}

\* general.get("color_scheme", "yoru")
SchemeOf(g) == IF g.has_color_scheme THEN g.color_scheme ELSE "yoru"

\* table.get("default_colors", {}).get("bg", "#0c0e0f")
BgOf(entry) == IF entry.default_colors /\ entry.has_bg THEN entry.bg ELSE DefaultBgHex

\* the mutant of get_bg_color: the library's table asked first
get_bg_color_library_first(g, local, library) ==
    LET scheme == SchemeOf(g)
    IN  hex_to_rgb(IF library[scheme].present THEN BgOf(library[scheme])
                   ELSE BgOf(local[scheme]))

get_bg_color(g, local, library) ==
    LET scheme == SchemeOf(g)
    IN  hex_to_rgb(IF local[scheme].present THEN BgOf(local[scheme])
                   ELSE BgOf(library[scheme]))

InitColor ==
    /\ general \in Generals
    /\ local_colors \in [SchemeNames -> SchemeEntries]
    /\ gifos_colors \in [SchemeNames -> SchemeEntries]
    /\ bg_color = <<>>

ColorIdle ==
    /\ general = [has_color_scheme |-> FALSE, color_scheme |-> ""]
    /\ local_colors = [n \in SchemeNames |-> NoScheme]
    /\ gifos_colors = [n \in SchemeNames |-> NoScheme]
    /\ bg_color = <<>>

\* bg_color = get_bg_color()
ResolveColor ==
    /\ bg_color = <<>>
    /\ bg_color' = get_bg_color(general, local_colors, gifos_colors)
    /\ UNCHANGED <<general, local_colors, gifos_colors>>

(***************************************************************************)
(* The fallback encoder and main                                           *)
(***************************************************************************)
MaxFiles == 3

MinGifSize == 10000
fps == 15

\* the names frames/ may hold: frames of two index widths, an upper-case
\* base, and two that do not end in ".png"
DirUniverse ==
    {<<"f", "2", ".", "p", "n", "g">>,
     <<"f", "1", "0", ".", "p", "n", "g">>,
     <<"f", "0", "2", ".", "p", "n", "g">>,
     <<"F", "1", ".", "p", "n", "g">>,
     <<"f", "3", ".", "t", "x", "t">>,
     <<"f", "4", ".", "P", "N", "G">>}

\* the sizes a file the primary encoder left may have
GifSizes == {MinGifSize - 1, MinGifSize, MinGifSize + 1}

NoFile == [exists |-> FALSE, writer |-> "none", size |-> 0, frames |-> <<>>,
           durations |-> <<>>, loop |-> 0]
\* a file left by ffmpeg, in this run or an earlier one
FfmpegFile(writer, size) ==
    [exists |-> TRUE, writer |-> writer, size |-> size, frames |-> <<>>,
     durations |-> <<>>, loop |-> 0]
\* frames[0].save(output_file, save_all=True, append_images=frames[1:],
\*                duration=d, loop=0): the frames in order, d for every frame
\* (the size of this file is only printed and is not modelled)
PillowFile(frames, d) ==
    [exists |-> TRUE, writer |-> "pillow", size |-> 0, frames |-> frames,
     durations |-> [k \in 1..Len(frames) |-> d], loop |-> 0]

\* the mutant of frame_duration: rounded to the nearest millisecond
frame_duration_rounded(f) == (2 * 1000 + f) \div (2 * f)

\* int(1000 / fps)
frame_duration(f) == 1000 \div f

\* what the path frames may be when the fallback encoder lists it
FramesKinds == {"directory", "a file", "absent"}

\* os.listdir(frames_dir): the names of a directory in any order;
\* FileNotFoundError when there is no frames, NotADirectoryError when it is
\* a file
Listings(kind, dir) ==
    CASE kind = "absent" -> {[raised |-> "FileNotFoundError", list |-> <<>>]}
      [] kind = "a file" -> {[raised |-> "NotADirectoryError", list |-> <<>>]}
      [] kind = "directory" ->
           {[raised |-> "no", list |-> l] :
              l \in {m \in [1..Cardinality(dir) -> dir] :
                       \A a, b \in 1..Cardinality(dir) : m[a] = m[b] => a = b}}

\* the "Loaded i/N frames..." lines printed while n frames are opened, one
\* at every hundredth frame
Loaded(n) == [k \in 1..(n \div 100) |-> "Loaded frames"]

\* the position of the first frame Image.open raises on, 1 on an empty list
\* (frames[0])
FirstUnreadable(files, unreadable) ==
    IF \E k \in 1..Len(files) : files[k] \in unreadable
    THEN CHOOSE k \in 1..Len(files) :
           /\ files[k] \in unreadable
           /\ \A m \in 1..(k - 1) : files[m] \notin unreadable
    ELSE 1

\* the mutant of frame_files: every name listed
frame_files_all(l) == l

\* [f for f in os.listdir(frames_dir) if f.endswith('.png')]
frame_files(l) == SelectSeq(l, LAMBDA f : endswith(f, PngSuffix))

\* the mutant of sort_frames: the order of the listing kept
sort_frames_unsorted(files) == [raised |-> "no", list |-> files]

\* frame_files.sort(key=natural_sort_key)
sort_frames(files) == sort_by_key(files)

\* the mutant of NoFrames: the empty list not noticed
NoFramesNever(files) == FALSE

\* not frame_files
NoFrames(files) == files = <<>>

\* the mutant of PrimaryAccepted: a file of exactly the threshold accepted
PrimaryAcceptedFrom(outcome, file) ==
    outcome = "returned" /\ file.exists /\ file.size >= MinGifSize

\* the mutant of PrimaryAccepted: any file that exists accepted
PrimaryAcceptedAnySize(outcome, file) ==
    outcome = "returned" /\ file.exists

\* what t.gen_gif() may do: return, raise an Exception, or raise what is
\* not an Exception (KeyboardInterrupt, SystemExit)
GenGifOutcomes == {"returned", "raised Exception", "raised BaseException"}

\* except Exception: what the handler at line 243 catches of gen_gif's
\* outcomes (a return raises nothing)
Caught(outcome) == outcome # "raised BaseException"

\* gen_gif returned, and os.path.exists(output_file) and
\* os.path.getsize(output_file) > 10000
PrimaryAccepted(outcome, file) ==
    outcome = "returned" /\ file.exists /\ file.size > MinGifSize

PngNames(dir) == {f \in dir : endswith(f, PngSuffix)}

TemplateReadme == "template referencing output.gif"

Init ==
    /\ SortIdle
    /\ ColorIdle
    /\ pc = "script"
    /\ tempOnDisk = FALSE
    /\ gen_gif = "not called"
    /\ outputGif \in {NoFile} \cup {FfmpegFile("earlier run", s) : s \in GifSizes}
    /\ framesDir = {}
    /\ framesKind = "absent"
    /\ gifWritable \in BOOLEAN
    /\ corrupt = {}
    /\ fallback = "not called"
    /\ printed = <<>>
    /\ readme \in {"absent", "earlier run", "not writable"}

MainIdle ==
    /\ pc = "idle"
    /\ tempOnDisk = FALSE
    /\ gen_gif = "not called"
    /\ outputGif = NoFile
    /\ framesDir = {}
    /\ framesKind = "absent"
    /\ gifWritable = TRUE
    /\ corrupt = {}
    /\ fallback = "not called"
    /\ printed = <<>>
    /\ readme = "absent"

\* main, lines 112-215: the terminal is built and the script drawn up to the
\* avatar; any of the library's calls may raise
RunScript ==
    /\ pc = "script"
    /\ \/ pc' = "avatar"
       \/ pc' = "raised"
    /\ UNCHANGED <<tempOnDisk, gen_gif, outputGif, framesDir, framesKind, gifWritable, corrupt, fallback,
                   printed, readme>>

\* avatar_with_bg = prepare_transparent_image("./icon.png", bg_color)
PrepareTransparentImage ==
    /\ pc = "avatar"
    /\ \/ \* Image.open, convert, Image.new or paste raises: no file yet
          /\ pc' = "raised"
          /\ UNCHANGED tempOnDisk
       \/ \* NamedTemporaryFile(delete=False) made the file, background.save raises
          /\ pc' = "raised"
          /\ tempOnDisk' = TRUE
       \/ \* the path of the file is returned
          /\ pc' = "paste"
          /\ tempOnDisk' = TRUE
    /\ UNCHANGED <<gen_gif, outputGif, framesDir, framesKind, gifWritable, corrupt, fallback, printed, readme>>

\* t.paste_image(avatar_with_bg, 10, 2, size_multiplier=0.07)
PasteImage ==
    /\ pc = "paste"
    /\ \/ pc' = "unlink"
       \/ pc' = "raised"
    /\ UNCHANGED <<tempOnDisk, gen_gif, outputGif, framesDir, framesKind, gifWritable, corrupt, fallback,
                   printed, readme>>

\* os.unlink(avatar_with_bg)
UnlinkTemp ==
    /\ pc = "unlink"
    /\ tempOnDisk' = FALSE
    /\ pc' = "finish"
    /\ UNCHANGED <<gen_gif, outputGif, framesDir, framesKind, gifWritable, corrupt, fallback, printed, readme>>

\* main, lines 223-231: the rest of the script.  When it is drawn the
\* library has left its frames in the folder line 50 named for it, which is
\* frames/ only when the settings say so: the path frames is then a
\* directory of at most MaxFiles names, any of its .png files unreadable, or
\* a file, or absent.
FinishScript ==
    /\ pc = "finish"
    /\ \/ /\ pc' = "export"
          /\ framesKind' \in FramesKinds
          /\ IF framesKind' = "directory"
             THEN framesDir' \in {d \in SUBSET DirUniverse : Cardinality(d) <= MaxFiles}
             ELSE framesDir' = {}
          /\ corrupt' \in SUBSET PngNames(framesDir')
          /\ UNCHANGED gifWritable
       \/ /\ pc' = "raised"
          /\ UNCHANGED <<framesDir, framesKind, gifWritable, corrupt>>
    /\ UNCHANGED <<tempOnDisk, gen_gif, outputGif, fallback, printed, readme>>

\* main, lines 234-244: t.gen_gif() and the check of what it left.  gen_gif
\* returns or raises, and leaves output.gif as it was or writes one.  The
\* handler at line 243 is "except Exception": what gen_gif raises that is
\* not an Exception (KeyboardInterrupt, SystemExit) leaves main at once.
\* No file is written where output.gif cannot be opened for writing.
PrimaryExport ==
    /\ pc = "export"
    /\ gen_gif' \in GenGifOutcomes
    /\ outputGif' \in {outputGif} \cup
                      (IF gifWritable THEN {FfmpegFile("ffmpeg", s) : s \in GifSizes}
                       ELSE {})
    /\ IF ~Caught(gen_gif')
       THEN /\ printed' = printed \o <<"Generating GIF...">>
            /\ pc' = "raised"
       ELSE IF PrimaryAccepted(gen_gif', outputGif')
       THEN /\ printed' = printed \o <<"Generating GIF...", "GIF generated with ffmpeg">>
            /\ pc' = "readme"
       ELSE /\ printed' = printed \o <<"Generating GIF...", "ffmpeg failed, falling back to Pillow...">>
            /\ pc' = "fallback"
    /\ UNCHANGED <<tempOnDisk, framesDir, framesKind, gifWritable, corrupt, fallback, readme>>

\* create_gif_from_frames(), called at line 245
CreateGifFromFrames ==
    /\ pc = "fallback"
    /\ \E l \in Listings(framesKind, framesDir) :
       \E files \in {sort_frames(frame_files(l.list))} :
             IF l.raised # "no" \/ files.raised # "no"
             THEN \* os.listdir or the sort raised
                  /\ fallback' = "raised"
                  /\ pc' = "raised"
                  /\ UNCHANGED <<outputGif, printed>>
             ELSE IF NoFrames(files.list)
             THEN /\ printed' = printed \o <<"No frames found!">>
                  /\ fallback' = "returned"
                  /\ pc' = "readme"
                  /\ UNCHANGED outputGif
             ELSE IF (\E k \in 1..Len(files.list) : files.list[k] \in corrupt)
                     \/ files.list = <<>>
             THEN \* Image.open raises on an unreadable frame (frames[0] on
                  \* an empty list)
                  /\ printed' = printed \o <<"Found frames">>
                                         \o Loaded(FirstUnreadable(files.list, corrupt) - 1)
                  /\ fallback' = "raised"
                  /\ pc' = "raised"
                  /\ UNCHANGED outputGif
             ELSE IF ~gifWritable
             THEN \* frames[0].save raises opening output.gif
                  /\ printed' = printed \o <<"Found frames">> \o Loaded(Len(files.list))
                                         \o <<"Saving GIF...">>
                  /\ fallback' = "raised"
                  /\ pc' = "raised"
                  /\ UNCHANGED outputGif
             ELSE /\ printed' = printed \o <<"Found frames">> \o Loaded(Len(files.list))
                                         \o <<"Saving GIF...", "Size">>
                  /\ outputGif' = PillowFile(files.list, frame_duration(fps))
                  /\ fallback' = "returned"
                  /\ pc' = "readme"
    /\ UNCHANGED <<tempOnDisk, gen_gif, framesDir, framesKind, gifWritable, corrupt, readme>>

\* main, lines 247-260: open("README.md", "w") raises when README.md cannot
\* be opened for writing (it is a directory, or may not be created or
\* written), after the first line is printed
WriteReadme ==
    /\ pc = "readme"
    /\ IF readme = "not writable"
       THEN /\ printed' = printed \o <<"Done! Generated: output.gif">>
            /\ pc' = "raised"
            /\ UNCHANGED readme
       ELSE /\ printed' = printed \o <<"Done! Generated: output.gif", "INFO: README.md file generated">>
            /\ readme' = TemplateReadme
            /\ pc' = "done"
    /\ UNCHANGED <<tempOnDisk, gen_gif, outputGif, framesDir, framesKind, gifWritable, corrupt, fallback>>

Next ==
    \/ (RunScript /\ UNCHANGED <<sortVars, colorVars>>)
    \/ (PrepareTransparentImage /\ UNCHANGED <<sortVars, colorVars>>)
    \/ (PasteImage /\ UNCHANGED <<sortVars, colorVars>>)
    \/ (UnlinkTemp /\ UNCHANGED <<sortVars, colorVars>>)
    \/ (FinishScript /\ UNCHANGED <<sortVars, colorVars>>)
    \/ (PrimaryExport /\ UNCHANGED <<sortVars, colorVars>>)
    \/ (CreateGifFromFrames /\ UNCHANGED <<sortVars, colorVars>>)
    \/ (WriteReadme /\ UNCHANGED <<sortVars, colorVars>>)

\* a run of main
Spec == Init /\ [][Next]_vars

NextSort == SortListing /\ UNCHANGED <<colorVars, mainVars>>

\* sort(key=natural_sort_key) of two arbitrary names
InitSortKey ==
    /\ InitKey /\ keys = <<>> /\ sorted = NotSorted /\ sortPc = "start"
    /\ ColorIdle /\ MainIdle

SpecKey == InitSortKey /\ [][NextSort]_vars

\* sort(key=natural_sort_key) of two frame names of one base
InitSortPair ==
    /\ InitPair /\ keys = <<>> /\ sorted = NotSorted /\ sortPc = "start"
    /\ ColorIdle /\ MainIdle

SpecPair == InitSortPair /\ [][NextSort]_vars

NextColor == ResolveColor /\ UNCHANGED <<sortVars, mainVars>>

\* get_bg_color() over every content of the two tables
InitResolve == InitColor /\ SortIdle /\ MainIdle

SpecColor == InitResolve /\ [][NextColor]_vars

(***************************************************************************)
(* Properties                                                              *)
(***************************************************************************)
Ended == pc \in {"done", "raised"}
FallbackCalled == pc = "fallback" \/ fallback # "not called"
Readable(dir) == PngNames(dir) \ corrupt
PositionOf(frames, f) == CHOOSE k \in 1..Len(frames) : frames[k] = f

\* C1 as stated: the fallback encoder is invoked exactly when gen_gif raised,
\* output.gif is absent, or output.gif is smaller than 10000 bytes; a file of
\* exactly 10000 bytes or more is accepted.
C1_FallbackIffBelowThreshold ==
    LET failed == \/ gen_gif \in {"raised Exception", "raised BaseException"}
                  \/ ~outputGif.exists
                  \/ outputGif.size < MinGifSize
    IN  /\ pc = "fallback" => failed
        /\ (gen_gif # "not called" /\ pc # "fallback" /\ fallback = "not called")
              => ~failed

\* C1 amended: the fallback encoder is invoked exactly when gen_gif raised an
\* Exception, or returned with output.gif absent or not larger than 10000
\* bytes; only a file of more than 10000 bytes is accepted.  When gen_gif
\* raises what is not an Exception the fallback encoder is not invoked and
\* main ends raising.
C1_FallbackIffNotAboveThreshold ==
    LET failed == \/ gen_gif = "raised Exception"
                  \/ gen_gif = "returned"
                       /\ (~outputGif.exists \/ outputGif.size <= MinGifSize)
    IN  /\ pc = "fallback" => failed
        /\ (gen_gif # "not called" /\ pc # "fallback" /\ fallback = "not called")
              => ~failed
        /\ gen_gif = "raised BaseException"
              => (fallback = "not called" /\ pc = "raised")

\* gen_gif returned and left a file of exactly 10000 bytes, and main is at the
\* call of the fallback encoder
C1_Witness ==
    /\ pc = "fallback"
    /\ gen_gif = "returned"
    /\ outputGif.exists
    /\ outputGif.size = MinGifSize

\* the file main accepted from the primary encoder, or the one Pillow wrote
ArtifactPresent ==
    /\ outputGif.exists
    /\ \/ outputGif.writer = "pillow"
       \/ gen_gif = "returned" /\ outputGif.size > MinGifSize

\* C2 as stated: a run that started encoding with at least one readable .png
\* frame in frames/ ends with output.gif present, accepted from the primary
\* encoder or written by the fallback encoder.
C2_ArtifactIfOneReadableFrame ==
    (Ended /\ gen_gif # "not called" /\ Readable(framesDir) # {}) => ArtifactPresent

\* C2 amended: a run that started encoding with at least one .png file in
\* frames/, every .png file there readable and output.gif writable, and
\* whose primary encoder returned or raised an Exception, ends with
\* output.gif present, accepted from the primary encoder or written by the
\* fallback encoder.
C2_ArtifactIfAllFramesReadable ==
    (/\ Ended
     /\ gen_gif \in {"returned", "raised Exception"}
     /\ gifWritable
     /\ PngNames(framesDir) # {}
     /\ corrupt = {})
        => ArtifactPresent

\* the primary encoder raised, the fallback encoder wrote the file and the
\* run ended
C2_Witness ==
    /\ pc = "done"
    /\ gen_gif = "raised Exception"
    /\ gifWritable
    /\ PngNames(framesDir) # {}
    /\ corrupt = {}
    /\ outputGif.writer = "pillow"

\* output.gif is the file the fallback encoder wrote, with one frame per
\* .png file of frames/ and none from any other file, in natural-sort-key
\* order (no frame before one whose key is less; f2.png before f10.png,
\* F1.png before f2.png)
EveryFrameOnceInKeyOrder ==
        /\ fallback = "returned"
        /\ outputGif.exists /\ outputGif.writer = "pillow"
        /\ Len(outputGif.frames) = Cardinality(PngNames(framesDir))
        /\ {outputGif.frames[k] : k \in 1..Len(outputGif.frames)} = PngNames(framesDir)
        /\ \A a, b \in 1..Len(outputGif.frames) :
             a < b => KeyLess(outputGif.frames[b], outputGif.frames[a]) = "false"
        /\ \A f, g \in PngNames(framesDir) :
             (\/ f = <<"f", "2", ".", "p", "n", "g">> /\ g = <<"f", "1", "0", ".", "p", "n", "g">>
              \/ f = <<"F", "1", ".", "p", "n", "g">> /\ g = <<"f", "2", ".", "p", "n", "g">>
              \/ f = <<"F", "1", ".", "p", "n", "g">> /\ g = <<"f", "0", "2", ".", "p", "n", "g">>)
             => PositionOf(outputGif.frames, f) < PositionOf(outputGif.frames, g)

\* C3: with N >= 1 .png files in frames/, all readable, the fallback encoder
\* returns having written output.gif from exactly N frames, one per .png
\* file and none from any other file, in natural-sort-key order: the first
\* is the base image and the others follow in order.  The frame sequence is
\* the one handed to frames[0].save; output.gif is taken to be writable, the
\* save raising otherwise whatever the frames are.
C3_EveryFrameOnceInKeyOrder ==
    (/\ FallbackCalled /\ pc # "fallback"
     /\ PngNames(framesDir) # {} /\ corrupt = {}
     /\ gifWritable)
        => EveryFrameOnceInKeyOrder

\* the fallback encoder wrote f2.png before f10.png, with a file that is not a
\* .png beside them
C3_Witness ==
    /\ fallback = "returned"
    /\ gifWritable
    /\ framesDir \ PngNames(framesDir) # {}
    /\ outputGif.frames = << <<"f", "2", ".", "p", "n", "g">>,
                            <<"f", "1", "0", ".", "p", "n", "g">> >>

\* C4 as stated: the duration the fallback encoder gives every frame is
\* round(1000 / fps) milliseconds, 67 at fps = 15.
C4_DurationRounded ==
    outputGif.writer = "pillow" =>
        /\ frame_duration_rounded(fps) = 67
        /\ \A k \in 1..Len(outputGif.frames) :
             outputGif.durations[k] = frame_duration_rounded(fps)

\* C4 amended: the duration the fallback encoder gives every frame is
\* 1000 / fps truncated to an integer, 66 milliseconds at fps = 15.
C4_DurationTruncated ==
    outputGif.writer = "pillow" =>
        /\ Len(outputGif.durations) = Len(outputGif.frames)
        /\ \A k \in 1..Len(outputGif.frames) : outputGif.durations[k] = 66

\* the fallback encoder wrote a file of at least two frames
C4_Witness ==
    /\ outputGif.writer = "pillow"
    /\ Len(outputGif.frames) >= 2
    /\ outputGif.durations[2] = 66

FrameI == FrameName(pairInfo.base, pairInfo.i, pairInfo.wi)
FrameJ == FrameName(pairInfo.base, pairInfo.j, pairInfo.wj)

\* C5 as stated: for every base and indices i < j written at any width, the
\* sort by natural_sort_key puts <base><i>.png before <base><j>.png.
C5_IndexOrderAnyBase ==
    sortPc = "sorted" => (sorted.raised = "no" /\ sorted.list = <<FrameI, FrameJ>>)

\* C5 amended: for every base of ASCII characters that does not end in a digit
\* and indices i < j written at any width, the sort by natural_sort_key puts
\* <base><i>.png before <base><j>.png.
C5_IndexOrderBaseNotEndingInDigit ==
    (sortPc = "sorted"
     /\ (pairInfo.base = <<>> \/ pairInfo.base[Len(pairInfo.base)] \notin AsciiDigits))
        => (sorted.raised = "no" /\ sorted.list = <<FrameI, FrameJ>>)

\* f_10.png listed before f_2.png, and sorted after it
C5_Witness ==
    /\ sortPc = "sorted"
    /\ listing = << <<"f", "_", "1", "0", ".", "p", "n", "g">>,
                    <<"f", "_", "2", ".", "p", "n", "g">> >>
    /\ sorted.list = << <<"f", "_", "2", ".", "p", "n", "g">>,
                        <<"f", "_", "1", "0", ".", "p", "n", "g">> >>

\* C6: with frames/ a directory that holds no name ending in .png, whatever
\* else it holds, the fallback encoder prints "No frames found!", returns
\* without raising and leaves output.gif as it was.
C6_NoFramesNoOutput ==
    [][(pc = "fallback" /\ framesKind = "directory" /\ PngNames(framesDir) = {}) =>
          /\ fallback' = "returned"
          /\ pc' = "readme"
          /\ printed' = Append(printed, "No frames found!")
          /\ outputGif' = outputGif]_vars

\* the fallback encoder returned from a directory that holds files, none a .png
C6_Witness ==
    /\ fallback = "returned"
    /\ framesKind = "directory"
    /\ framesDir # {}
    /\ PngNames(framesDir) = {}
    /\ printed[Len(printed)] = "No frames found!"

\* C7: when main has ended, returning or raising, the temporary avatar file
\* of the run is not on disk.
C7_TempFileDeletedOnEveryExit == Ended => ~tempOnDisk

RgbOf(hex) ==
    CASE hex = DefaultBgHex -> <<12, 14, 15>>
      [] hex = LocalHex -> <<26, 43, 60>>
      [] hex = LibraryHex -> <<255, 0, 153>>

\* the bg an entry gives, (12, 14, 15) when the entry names none
RgbOfEntry(entry) ==
    IF entry.default_colors /\ entry.has_bg THEN RgbOf(entry.bg) ELSE <<12, 14, 15>>

\* C8: get_bg_color always returns an RGB triple: from the local table's
\* entry when the local table has the scheme, whatever the library's table
\* holds; otherwise from the library's entry for the scheme; and (12, 14, 15)
\* when neither table has the scheme.
C8_LocalThenLibraryThenDefault ==
    bg_color # <<>> =>
        LET scheme == IF general.has_color_scheme THEN general.color_scheme ELSE "yoru"
        IN  /\ Len(bg_color) = 3
            /\ \A k \in 1..3 : bg_color[k] \in 0..255
            /\ local_colors[scheme].present
                 => bg_color = RgbOfEntry(local_colors[scheme])
            /\ (~local_colors[scheme].present /\ gifos_colors[scheme].present)
                 => bg_color = RgbOfEntry(gifos_colors[scheme])
            /\ (~local_colors[scheme].present /\ ~gifos_colors[scheme].present)
                 => bg_color = <<12, 14, 15>>

\* both tables define the scheme, with different bg, and the local one is
\* returned
C8_Witness ==
    /\ bg_color = <<26, 43, 60>>
    /\ general.has_color_scheme /\ general.color_scheme = "mine"
    /\ local_colors["mine"].bg = LocalHex
    /\ gifos_colors["mine"].bg = LibraryHex

\* the fallback encoder was called, listed frames/ and found no .png file
FoundNoFrames ==
    /\ FallbackCalled /\ pc # "fallback"
    /\ framesKind = "directory"
    /\ PngNames(framesDir) = {}

\* C9: when the primary encoder failed and the fallback encoder found no
\* .png file, the fallback encoder returns, main does not raise, no
\* output.gif is written by the fallback, and main ends with README.md
\* holding the template.  README.md is taken to be writable, open() raising
\* otherwise on every path that reaches it.
C9_ReadmeWrittenWithoutFrames ==
    FoundNoFrames =>
        /\ fallback = "returned"
        /\ outputGif.writer # "pillow"
        /\ readme # "not writable" =>
              /\ pc \in {"readme", "done"}
              /\ pc = "done" => readme = TemplateReadme

\* main ended with the template in README.md and no output.gif on disk
C9_Witness ==
    /\ pc = "done"
    /\ fallback = "returned"
    /\ framesKind = "directory"
    /\ PngNames(framesDir) = {}
    /\ ~outputGif.exists
    /\ readme = TemplateReadme

\* C10: the keys of any two names have the same token type at every position
\* they share, a str at every even position (counted from 0) and an int at
\* every odd one, so that sorting never compares an int with a str.
C10_SameTokenTypeAtSharedPositions ==
    sortPc = "sorted" =>
        /\ \A n \in 1..2 : \A k \in 1..Len(keys[n]) :
             keys[n][k].type = (IF k % 2 = 1 THEN "str" ELSE "int")
        /\ \A k \in 1..Len(keys[1]) :
             k <= Len(keys[2]) => keys[1][k].type = keys[2][k].type
        /\ sorted.raised # "TypeError"

====
